---- MODULE Spec2Model ----
(***************************************************************************)
(* A model of src/src/util.ts of the discord-vscode extension:             *)
(*   getGit                  the cached accessor of the vscode.git API     *)
(*   getRepositoryIconAsync  the repository icon resolver                  *)
(*   execute                 the promise wrapper around child_process.exec *)
(*   resolveFileIconAsync    the file icon resolver                        *)
(*                                                                         *)
(* JavaScript strings are sequences of one-character strings, so that      *)
(* startsWith, replace, trim, split and the regular expressions act on     *)
(* characters as they do in the source.  JavaScript values are records     *)
(* tagged by t: undefined, null, a string, an API object, an error.        *)
(***************************************************************************)
EXTENDS Integers, Sequences, FiniteSets, TLC

VARIABLES
  \* ---- module state and the extension host (getGit)
  git,              \* util.ts:10  let git: API | null | undefined
  extension,        \* the host's 'vscode.git' extension: absent, inactive, active
  pc,               \* per caller of getGit: idle, or suspended at line 168
  gitExtension,     \* per caller: the local of line 165
  ret,              \* per caller: what its last getGit call returned
  calls,            \* number of getGit calls started
  callInfo,         \* history, per caller: was the call started after a failed
                    \* call had returned, and did it look the extension up
  failed,           \* history: some getGit call has returned without a handle
  gitWrites,        \* history: assignments to git that stored a handle or null
  \* ---- the inputs of one resolveFileIconAsync call
  workspaceFolders, \* workspace.workspaceFolders
  bigImageFilePaths,\* getConfig().bigImageFilePaths
  document,         \* the TextDocument: fileName, languageId
  tracked,          \* the files the repository tracks (what git ls-files lists)
  \* ---- the call itself
  pcIcon,           \* idle, awaitExec, execSettled, awaitRepoIcon, done
  url,              \* local of getRepositoryIconAsync, line 86, 91-101
  branchName,       \* local of getRepositoryIconAsync, line 85
  cwd,              \* repo.rootUri.path handed to execute, line 103
  execCalls,        \* number of child_process.exec calls made
  error,            \* exec callback argument
  standardOutput,   \* exec callback argument
  standardError,    \* exec callback argument
  settleCalls,      \* the resolve/reject calls the exec callback made, in order
  executePromise,   \* the promise execute returned
  repoIcon,         \* the promise getRepositoryIconAsync returned
  fileIcon          \* the promise resolveFileIconAsync returned

gitVars == <<git, extension, pc, gitExtension, ret, calls, callInfo, failed, gitWrites>>
inputVars == <<workspaceFolders, bigImageFilePaths, document, tracked>>
iconVars == <<pcIcon, url, branchName, cwd, execCalls, error, standardOutput,
              standardError, settleCalls, executePromise, repoIcon, fileIcon>>
vars == <<gitVars, inputVars, iconVars>>

----------------------------------------------------------------------------
(* JavaScript values *)

Undefined == [t |-> "undefined"]
Null == [t |-> "null"]
Str(s) == [t |-> "string", s |-> s]
IsStr(v) == v.t = "string"

\* JavaScript truthiness of the values the model holds: undefined, null and
\* the empty string are falsy, every object and non-empty string is truthy.
Truthy(v) == /\ v.t # "undefined"
             /\ v.t # "null"
             /\ (v.t = "string" => v.s # <<>>)

\* a ?? b
Coalesce(a, b) == IF a.t \in {"undefined", "null"} THEN b ELSE a

\* Promise states
Pending == [state |-> "pending"]
Fulfilled(v) == [state |-> "fulfilled", value |-> v]
Rejected(r) == [state |-> "rejected", reason |-> r]

----------------------------------------------------------------------------
(* String.prototype functions, on sequences of characters *)

StartsWith(s, p) == Len(p) <= Len(s) /\ SubSeq(s, 1, Len(p)) = p

EndsWith(s, p) == Len(p) <= Len(s) /\ SubSeq(s, Len(s) - Len(p) + 1, Len(s)) = p

\* The positions at which p occurs in s.
Occurrences(s, p) ==
  {i \in 1..(Len(s) - Len(p) + 1) : SubSeq(s, i, i + Len(p) - 1) = p}

\* s.indexOf(p), 1-based, 0 when p does not occur.
IndexOf(s, p) ==
  IF Occurrences(s, p) = {} THEN 0
  ELSE CHOOSE i \in Occurrences(s, p) : \A j \in Occurrences(s, p) : i <= j

\* s.replace(p, r) with a string pattern: the first occurrence only.
ReplaceFirst(s, p, r) ==
  LET i == IndexOf(s, p)
  IN IF i = 0 THEN s
     ELSE SubSeq(s, 1, i - 1) \o r \o SubSeq(s, i + Len(p), Len(s))

WhiteSpace == {" ", "\n", "\t", "\r"}

RECURSIVE TrimStart(_)
TrimStart(s) ==
  IF s # <<>> /\ Head(s) \in WhiteSpace THEN TrimStart(Tail(s)) ELSE s

RECURSIVE TrimEnd(_)
TrimEnd(s) ==
  IF s # <<>> /\ s[Len(s)] \in WhiteSpace
  THEN TrimEnd(SubSeq(s, 1, Len(s) - 1)) ELSE s

\* s.trim()
Trim(s) == TrimEnd(TrimStart(s))

\* s.split(c) for a one-character separator: ''.split(c) is [''].
RECURSIVE Split(_, _)
Split(s, c) ==
  LET i == IndexOf(s, <<c>>)
  IN IF i = 0 THEN <<s>>
     ELSE <<SubSeq(s, 1, i - 1)>> \o Split(SubSeq(s, i + 1, Len(s)), c)

----------------------------------------------------------------------------
(* getGit, util.ts:158-177 *)

\* Bounds: callers whose getGit calls may overlap, and getGit calls started
\* in one behaviour.
MaxCallers == 2
MaxCalls == 4

Callers == 1..MaxCallers

\* What ret holds before a caller's first call has returned.
NoValue == [t |-> "none"]

\* The API objects exports.getAPI(1) may hand out.
ApiObject(i) == [t |-> "api", id |-> i, state |-> "initialized", repositories |-> <<>>]
ApiObjects == {ApiObject(1), ApiObject(2)}

\* if (git || git === null) at line 159
IsCached(g) == Truthy(g) \/ g = Null

\* Lines 170-174 for a caller whose gitExtension is defined: getAPI(1)
\* returns an API object, or throws and the catch stores null.
GetAPIOutcomes == ApiObjects \cup {Null}

\* The call returns v at line 176 (or 160).
Return(c, v, looked) ==
  /\ ret' = [ret EXCEPT ![c] = v]
  /\ callInfo' = [callInfo EXCEPT ![c].lookedUp = looked, ![c].returned = TRUE]

\* Line 170-176 once gitExtension is known to be defined and activated.
AssignFromAPI(c) ==
  \E v \in GetAPIOutcomes :
    /\ git' = v
    /\ gitWrites' = gitWrites + 1
    /\ failed' = (failed \/ v = Null)
    /\ Return(c, v, TRUE)

\* A call to getGit, up to its first suspension or its return.
GetGitBegin(c) ==
  /\ pc[c] = "idle"
  /\ calls < MaxCalls
  /\ calls' = calls + 1
  /\ IF IsCached(git)
     THEN \* line 159-161
          /\ ret' = [ret EXCEPT ![c] = git]
          /\ callInfo' = [callInfo EXCEPT ![c] =
                            [later |-> failed, lookedUp |-> FALSE, returned |-> TRUE]]
          /\ UNCHANGED <<git, extension, pc, gitExtension, failed, gitWrites>>
     ELSE \* line 165: extensions.getExtension('vscode.git')
          /\ gitExtension' = [gitExtension EXCEPT ![c] =
                                IF extension = "absent" THEN "undefined" ELSE "found"]
          /\ IF extension = "active"
             THEN \* line 166 is false: no await, line 170 runs at once
                  /\ \E v \in GetAPIOutcomes :
                       /\ git' = v
                       /\ gitWrites' = gitWrites + 1
                       /\ failed' = (failed \/ v = Null)
                       /\ ret' = [ret EXCEPT ![c] = v]
                       /\ callInfo' = [callInfo EXCEPT ![c] =
                            [later |-> failed, lookedUp |-> TRUE, returned |-> TRUE]]
                  /\ UNCHANGED <<extension, pc>>
             ELSE \* line 168: await gitExtension?.activate()
                  /\ pc' = [pc EXCEPT ![c] = "awaitActivate"]
                  /\ callInfo' = [callInfo EXCEPT ![c] =
                            [later |-> failed, lookedUp |-> TRUE, returned |-> FALSE]]
                  /\ UNCHANGED <<git, extension, ret, failed, gitWrites>>
  /\ UNCHANGED <<inputVars, iconVars>>

\* The continuation after line 168 when gitExtension is undefined: the
\* optional chains of lines 168 and 170 yield undefined and nothing throws.
GetGitResumeAbsent(c) ==
  /\ pc[c] = "awaitActivate"
  /\ gitExtension[c] = "undefined"
  /\ git' = Undefined
  /\ failed' = TRUE
  /\ pc' = [pc EXCEPT ![c] = "idle"]
  /\ Return(c, Undefined, TRUE)
  /\ UNCHANGED <<extension, gitExtension, calls, gitWrites>>
  /\ UNCHANGED <<inputVars, iconVars>>

\* The continuation after line 168 when activate() threw: line 172.
GetGitActivateThrows(c) ==
  /\ pc[c] = "awaitActivate"
  /\ gitExtension[c] = "found"
  /\ git' = Null
  /\ gitWrites' = gitWrites + 1
  /\ failed' = TRUE
  /\ pc' = [pc EXCEPT ![c] = "idle"]
  /\ Return(c, Null, TRUE)
  /\ UNCHANGED <<extension, gitExtension, calls>>
  /\ UNCHANGED <<inputVars, iconVars>>

\* The continuation after line 168 when activate() succeeded: line 170.
GetGitActivated(c) ==
  /\ pc[c] = "awaitActivate"
  /\ gitExtension[c] = "found"
  /\ extension' = "active"
  /\ pc' = [pc EXCEPT ![c] = "idle"]
  /\ AssignFromAPI(c)
  /\ UNCHANGED <<gitExtension, calls>>
  /\ UNCHANGED <<inputVars, iconVars>>

----------------------------------------------------------------------------
(* getRepositoryIconAsync, util.ts:75-120: the synchronous part *)

HTTPS == <<"h","t","t","p","s",":","/","/">>
HTTPS_RAW == HTTPS \o <<"r","a","w",".">>
SSH == <<"s","s","h",":","/","/">>
GIT_AT == <<"g","i","t","@">>
DOT_GIT == <<".","g","i","t">>

\* Line 76 without its test of git.state.
NotReady_NoStateCheck(g, folders) ==
  \/ ~Truthy(g)
  \/ Len(g.repositories) = 0
  \/ ~Truthy(folders)

\* Line 76: the early return.
NotReady(g, folders) ==
  \/ ~Truthy(g)
  \/ g.state # "initialized"
  \/ Len(g.repositories) = 0
  \/ ~Truthy(folders)

\* Line 82: folders?.some(folder => repo.rootUri.path === folder.uri.path)
InWorkspace(repo, folders) ==
  \E k \in 1..Len(folders.items) : repo.rootUri.path = folders.items[k].uri.path

\* Line 81: repositories.find(...), as an index; 0 when find yields undefined.
FindRepo(g, folders) ==
  LET hits == {i \in 1..Len(g.repositories) : InWorkspace(g.repositories[i], folders)}
  IN IF hits = {} THEN 0 ELSE CHOOSE i \in hits : \A j \in hits : i <= j

\* Line 85: repo?.state.HEAD?.name ?? repo?.state.HEAD?.commit
BranchNameOf(repo) ==
  IF repo = Undefined THEN Undefined
  ELSE LET head == repo.state.HEAD
       IN Coalesce(IF head = Undefined THEN Undefined ELSE head.name,
                   IF head = Undefined THEN Undefined ELSE head.commit)

\* Line 86: repo?.state.remotes[0]?.fetchUrl
FetchUrlOf(repo) ==
  IF repo = Undefined THEN Undefined
  ELSE IF Len(repo.state.remotes) = 0 THEN Undefined
  ELSE repo.state.remotes[1].fetchUrl

\* Line 99: url.replace(/(https:\/\/)([^@]*)@(.*?$)/, '$1$3'): the leftmost
\* 'https://' that an '@' follows, with everything up to the first such '@'
\* dropped.
StripCredentials(u) ==
  LET i == IndexOf(u, HTTPS)
      rest == SubSeq(u, i + Len(HTTPS), Len(u))
      at == IndexOf(rest, <<"@">>)
  IN IF i = 0 \/ at = 0 THEN u
     ELSE SubSeq(u, 1, i + Len(HTTPS) - 1) \o SubSeq(rest, at + 1, Len(rest))

\* Lines 91-101.
NormalizeUrl(u) ==
  IF StartsWith(u, GIT_AT) \/ StartsWith(u, SSH)
  THEN ReplaceFirst(
         ReplaceFirst(
           ReplaceFirst(
             ReplaceFirst(u, SSH, <<>>),
             <<":">>, <<"/">>),
           GIT_AT, HTTPS),
         DOT_GIT, <<>>)
  ELSE ReplaceFirst(StripCredentials(u), DOT_GIT, <<>>)

\* Lines 76-89: the repository the call goes on with, or Undefined when it
\* returns early.
SelectedRepo(g, folders) ==
  IF NotReady(g, folders) THEN Undefined
  ELSE LET i == FindRepo(g, folders)
           repo == IF i = 0 THEN Undefined ELSE g.repositories[i]
       IN IF repo = Undefined
             \/ ~Truthy(BranchNameOf(repo))
             \/ ~Truthy(FetchUrlOf(repo))
          THEN Undefined
          ELSE repo

----------------------------------------------------------------------------
(* glob-to-regexp with {extended: true, globstar: true}, util.ts:105-108, *)
(* and RegExp.prototype.test, util.ts:111.  A compiled pattern is a        *)
(* sequence of tokens; it is anchored (no 'g' flag).  Character classes    *)
(* and balanced {a,b} groups are outside the patterns the model draws.     *)

Lit(c) == [k |-> "lit", c |-> c]
AnyChar == [k |-> "any"]
Star == [k |-> "star"]           \* ([^/]*)
GlobStar == [k |-> "globstar"]   \* ((?:[^/]*(?:\/|$))*)
GroupOpen == [k |-> "open"]      \* (
GroupClose == [k |-> "close"]    \* )

\* The index of the last '*' of the run of stars that starts at i.
RECURSIVE StarRunEnd(_, _)
StarRunEnd(glob, i) ==
  IF i < Len(glob) /\ glob[i + 1] = "*" THEN StarRunEnd(glob, i + 1) ELSE i

RECURSIVE GlobTokens(_, _)
GlobTokens(glob, i) ==
  IF i > Len(glob) THEN <<>>
  ELSE LET c == glob[i]
       IN CASE c = "*" ->
                 LET j == StarRunEnd(glob, i)
                     isGlobstar == /\ j - i + 1 > 1
                                   /\ (i = 1 \/ glob[i - 1] = "/")
                                   /\ (j = Len(glob) \/ glob[j + 1] = "/")
                 IN IF isGlobstar
                    THEN <<GlobStar>> \o GlobTokens(glob, j + 2)
                    ELSE <<Star>> \o GlobTokens(glob, j + 1)
            [] c = "?" -> <<AnyChar>> \o GlobTokens(glob, i + 1)
            [] c = "{" -> <<GroupOpen>> \o GlobTokens(glob, i + 1)
            [] c = "}" -> <<GroupClose>> \o GlobTokens(glob, i + 1)
            [] OTHER -> <<Lit(c)>> \o GlobTokens(glob, i + 1)

\* new RegExp(source) throws a SyntaxError on an unbalanced group.
RECURSIVE Balanced(_, _)
Balanced(re, depth) ==
  IF re = <<>> THEN depth = 0
  ELSE CASE Head(re).k = "open" -> Balanced(Tail(re), depth + 1)
         [] Head(re).k = "close" -> depth > 0 /\ Balanced(Tail(re), depth - 1)
         [] OTHER -> Balanced(Tail(re), depth)

SyntaxError == [t |-> "SyntaxError"]

\* GlobToRegExp(filePath, {extended: true, globstar: true})
GlobToRegExp(glob) ==
  LET re == GlobTokens(glob, 1)
  IN IF Balanced(re, 0) THEN [ok |-> TRUE, re |-> re] ELSE [ok |-> FALSE]

NoSlash(s, n) == \A i \in 1..n : s[i] # "/"

RECURSIVE Matches(_, _)
RECURSIVE MatchesGlobStar(_, _)
\* The anchored pattern re matches the whole of s.
Matches(re, s) ==
  IF re = <<>> THEN s = <<>>
  ELSE LET h == Head(re)
           r == Tail(re)
       IN CASE h.k = "lit" -> s # <<>> /\ Head(s) = h.c /\ Matches(r, Tail(s))
            [] h.k = "any" -> s # <<>> /\ Head(s) \notin {"\n", "\r"} /\ Matches(r, Tail(s))
            [] h.k = "star" ->
                 \E n \in 0..Len(s) : NoSlash(s, n) /\ Matches(r, SubSeq(s, n + 1, Len(s)))
            [] h.k = "globstar" -> MatchesGlobStar(r, s)
            [] OTHER -> FALSE

\* ((?:[^/]*(?:\/|$))*) followed by r: no segment, or a segment that ends
\* at a '/' and then the same again, or a last segment up to the end.
MatchesGlobStar(r, s) ==
  \/ Matches(r, s)
  \/ \E n \in 1..Len(s) :
       /\ s[n] = "/"
       /\ NoSlash(s, n - 1)
       /\ MatchesGlobStar(r, SubSeq(s, n + 1, Len(s)))
  \/ (s # <<>> /\ NoSlash(s, Len(s)) /\ Matches(r, <<>>))

\* regex.test(file)
Test(regex, file) == Matches(regex.re, file)

----------------------------------------------------------------------------
(* getRepositoryIconAsync, util.ts:103-119: after the await *)

\* Line 104: the comparator's key, a.split('/').length.
SegCount(f) == Len(Split(f, "/"))

\* Array.prototype.sort is stable: f goes behind every element that does
\* not compare greater.
RECURSIVE InsertSorted(_, _)
InsertSorted(sorted, f) ==
  IF sorted = <<>> THEN <<f>>
  ELSE IF SegCount(Head(sorted)) - SegCount(f) <= 0
       THEN <<Head(sorted)>> \o InsertSorted(Tail(sorted), f)
       ELSE <<f>> \o sorted

RECURSIVE SortFrom(_, _)
SortFrom(sorted, rest) ==
  IF rest = <<>> THEN sorted
  ELSE SortFrom(InsertSorted(sorted, Head(rest)), Tail(rest))

\* Line 104: trackedFiles.sort((a, b) => a.split('/').length - b.split('/').length)
SortByDepth(files) == SortFrom(<<>>, files)

\* Line 103: (await execute(...)).trim().split('\n')
ParseTrackedFiles(stdout) == Split(Trim(stdout), "\n")

\* Lines 110-117: the first file of the list that some regex matches, as an
\* index; 0 when the loop ends without a return.
FirstMatch(files, regexes) ==
  LET hits == {i \in 1..Len(files) :
                 \E r \in 1..Len(regexes) : Test(regexes[r], files[i])}
  IN IF hits = {} THEN 0 ELSE CHOOSE i \in hits : \A j \in hits : i <= j

\* Line 116.
BuildUrl(u, branch, file) ==
  ReplaceFirst(u, HTTPS, HTTPS_RAW) \o <<"/">> \o branch \o <<"/">> \o file

\* Lines 103-119 once execute has resolved with stdout: how the promise of
\* getRepositoryIconAsync settles.
RepoIconAfterExec(u, branch, stdout, filePaths) ==
  LET trackedFiles == SortByDepth(ParseTrackedFiles(stdout))
      regexes == [i \in 1..Len(filePaths) |-> GlobToRegExp(filePaths[i])]
  IN IF \E i \in 1..Len(regexes) : ~regexes[i].ok
     THEN Rejected(SyntaxError)
     ELSE LET i == FirstMatch(trackedFiles, regexes)
          IN IF i = 0 THEN Fulfilled(Undefined)
             ELSE Fulfilled(Str(BuildUrl(u, branch, trackedFiles[i])))

----------------------------------------------------------------------------
(* execute, util.ts:127-156 *)

Call(fn, arg) == [fn |-> fn, arg |-> arg]

\* Lines 142-154 with the two tests in the other order.
ExecCallbackCalls_StderrFirst(err, stdout, stderr) ==
  IF Truthy(Str(stderr)) THEN <<Call("reject", Str(stderr))>>
  ELSE IF err THEN <<Call("reject", Undefined)>>
  ELSE <<Call("resolve", Str(stdout))>>

\* Lines 142-154: the resolve/reject calls the exec callback makes.
ExecCallbackCalls(err, stdout, stderr) ==
  IF err THEN <<Call("reject", Undefined)>>
  ELSE IF Truthy(Str(stderr)) THEN <<Call("reject", Str(stderr))>>
  ELSE <<Call("resolve", Str(stdout))>>

\* A promise is settled by the first resolve/reject call made on it.
Settle(promise, settles) ==
  IF promise.state # "pending" \/ settles = <<>> THEN promise
  ELSE IF Head(settles).fn = "resolve" THEN Fulfilled(Head(settles).arg)
  ELSE Rejected(Head(settles).arg)

----------------------------------------------------------------------------
(* resolveFileIconAsync, util.ts:45-73 *)

\* The tables of ./constants: their shapes are those util.ts reads (a key
\* that is a literal suffix or '/regex/flags', a value that is an icon key
\* or an object with an image; a list of {language, image}); the entries
\* are samples.  Object.keys keeps the order of insertion.
KNOWN_EXTENSIONS ==
  << [key |-> <<".","j","s">>, value |-> Str(<<"j","s">>)],
     [key |-> <<"/","^","m","/","i">>, value |-> [t |-> "object", image |-> Str(<<"m","a","k","e">>)]],
     [key |-> <<".","m","d">>, value |-> [t |-> "object", image |-> Str(<<"m","a","r","k","d","o","w","n">>)]] >>

KNOWN_LANGUAGES ==
  << [language |-> <<"t","s">>, image |-> Str(<<"t","y","p","e","s","c","r","i","p","t">>)],
     [language |-> <<"m","d">>, image |-> Str(<<"m","a","r","k","d","o","w","n">>)] >>

TEXT == <<"t","e","x","t">>

\* path.basename(fileName)
Basename(fileName) ==
  LET parts == Split(fileName, "/") IN parts[Len(parts)]

RegExpFlags == {"m", "g", "i", "y"}

\* Line 57: /^\/(.*)\/([mgiy]+)$/.exec(key): the key starts with '/', and
\* after its last '/' come one or more flags.  The index of that last '/',
\* or 0 when exec returns null.
RegexKeySlash(key) ==
  LET slashes == {i \in 2..Len(key) : key[i] = "/"}
      last == CHOOSE i \in slashes : \A j \in slashes : j <= i
  IN IF key = <<>> \/ key[1] # "/" \/ slashes = {} THEN 0
     ELSE IF last < Len(key) /\ \A i \in (last + 1)..Len(key) : key[i] \in RegExpFlags
          THEN last
          ELSE 0

\* The tokens of a regular expression source made of literal characters
\* and '.'; '^' and '$' are handled by RegexTest.
SourceTokens(src) ==
  [i \in 1..Len(src) |-> IF src[i] = "." THEN AnyChar ELSE Lit(src[i])]

\* Lines 62-63: new RegExp(source, flags).test(s), for a source of literal
\* characters and '.', with an optional leading '^' and trailing '$'.  The
\* model's file names are lower case, so the 'i' flag changes nothing.
RegexTest(source, s) ==
  LET atStart == source # <<>> /\ Head(source) = "^"
      src1 == IF atStart THEN Tail(source) ELSE source
      atEnd == src1 # <<>> /\ src1[Len(src1)] = "$"
      src2 == IF atEnd THEN SubSeq(src1, 1, Len(src1) - 1) ELSE src1
  IN \E i \in 1..(Len(s) + 1) : \E j \in (i - 1)..Len(s) :
       /\ atStart => i = 1
       /\ atEnd => j = Len(s)
       /\ Matches(SourceTokens(src2), SubSeq(s, i, j))

\* Lines 52-64: the predicate handed to find.
KeyMatches(key, filename) ==
  \/ EndsWith(filename, key)
  \/ LET slash == RegexKeySlash(key)
     IN slash # 0 /\ RegexTest(SubSeq(key, 2, slash - 1), filename)

\* Line 52: Object.keys(KNOWN_EXTENSIONS).find(...), as an index; 0 when
\* find yields undefined.
FindKnownExtension(filename) ==
  LET hits == {i \in 1..Len(KNOWN_EXTENSIONS) : KeyMatches(KNOWN_EXTENSIONS[i].key, filename)}
  IN IF hits = {} THEN 0 ELSE CHOOSE i \in hits : \A j \in hits : i <= j

\* Line 65: KNOWN_LANGUAGES.find(key => key.language === document.languageId)
FindKnownLanguage(languageId) ==
  LET hits == {i \in 1..Len(KNOWN_LANGUAGES) : KNOWN_LANGUAGES[i].language = languageId}
  IN IF hits = {} THEN 0 ELSE CHOOSE i \in hits : \A j \in hits : i <= j

\* Lines 66-70 with the language asked first.
FileIconOf_LanguageFirst(ext, lang) ==
  IF lang # 0 THEN KNOWN_LANGUAGES[lang].image
  ELSE IF ext # 0 /\ Truthy(Str(KNOWN_EXTENSIONS[ext].key)) THEN KNOWN_EXTENSIONS[ext].value
  ELSE Null

\* Lines 66-70.
FileIconOf(ext, lang) ==
  IF ext # 0 /\ Truthy(Str(KNOWN_EXTENSIONS[ext].key)) THEN KNOWN_EXTENSIONS[ext].value
  ELSE IF lang # 0 THEN KNOWN_LANGUAGES[lang].image
  ELSE Null

\* Line 72: typeof fileIcon === 'string' ? fileIcon : fileIcon?.image ?? 'text'
IconKey(icon) ==
  IF IsStr(icon) THEN icon
  ELSE Coalesce(IF icon = Null THEN Undefined ELSE icon.image, Str(TEXT))

\* Lines 51-72: the value returned when there is no repository icon.
FallbackIcon(doc) ==
  IconKey(FileIconOf(FindKnownExtension(Basename(doc.fileName)),
                     FindKnownLanguage(doc.languageId)))

\* Lines 46-72 with the await of line 46 wrapped in a try/catch that falls
\* back to the static tables.
FileIconAfterRepoIcon_Catch(promise, doc) ==
  IF promise.state = "rejected" THEN Fulfilled(FallbackIcon(doc))
  ELSE IF Truthy(promise.value) THEN Fulfilled(promise.value)
  ELSE Fulfilled(FallbackIcon(doc))

\* Lines 46-72 once the promise of getRepositoryIconAsync has settled.
FileIconAfterRepoIcon(promise, doc) ==
  IF promise.state = "rejected" THEN Rejected(promise.reason)
  ELSE IF Truthy(promise.value) THEN Fulfilled(promise.value)
  ELSE Fulfilled(FallbackIcon(doc))

----------------------------------------------------------------------------
(* The actions of one resolveFileIconAsync(document) call *)

\* git ls-files prints each tracked path followed by a newline.
RECURSIVE LsFiles(_)
LsFiles(files) ==
  IF files = <<>> THEN <<>>
  ELSE Head(files) \o <<"\n">> \o LsFiles(Tail(files))

\* What git may write to its error stream.
StdErrs == {<<>>, <<"w","a","r","n","i","n","g">>}

\* resolveFileIconAsync is called and runs into getRepositoryIconAsync, up
\* to the await of line 103 or to an early return (lines 77, 88).
ResolveFileIconCall ==
  /\ pcIcon = "idle"
  /\ LET repo == SelectedRepo(git, workspaceFolders)
     IN IF repo = Undefined
        THEN /\ repoIcon' = Fulfilled(Undefined)
             /\ pcIcon' = "awaitRepoIcon"
             /\ UNCHANGED <<url, branchName, cwd, execCalls, executePromise>>
        ELSE /\ url' = NormalizeUrl(FetchUrlOf(repo).s)
             /\ branchName' = BranchNameOf(repo).s
             /\ cwd' = repo.rootUri.path
             /\ execCalls' = execCalls + 1
             /\ executePromise' = Pending
             /\ pcIcon' = "awaitExec"
             /\ UNCHANGED repoIcon
  /\ UNCHANGED <<error, standardOutput, standardError, settleCalls, fileIcon>>
  /\ UNCHANGED <<gitVars, inputVars>>

\* child_process.exec calls back, once: lines 142-154.
ExecCallback ==
  /\ pcIcon = "awaitExec"
  /\ \E err \in BOOLEAN, stderr \in StdErrs :
       LET stdout == IF err THEN <<>> ELSE LsFiles(tracked)
           settles == ExecCallbackCalls(err, stdout, stderr)
       IN /\ error' = err
          /\ standardOutput' = stdout
          /\ standardError' = stderr
          /\ settleCalls' = settles
          /\ executePromise' = Settle(executePromise, settles)
  /\ pcIcon' = "execSettled"
  /\ UNCHANGED <<url, branchName, cwd, execCalls, repoIcon, fileIcon>>
  /\ UNCHANGED <<gitVars, inputVars>>

\* getRepositoryIconAsync goes on after the await of line 103; a rejection
\* of execute is not caught.
RepoIconResume ==
  /\ pcIcon = "execSettled"
  /\ repoIcon' = IF executePromise.state = "rejected"
                 THEN Rejected(executePromise.reason)
                 ELSE RepoIconAfterExec(url, branchName, executePromise.value.s,
                                        bigImageFilePaths)
  /\ pcIcon' = "awaitRepoIcon"
  /\ UNCHANGED <<url, branchName, cwd, execCalls, error, standardOutput,
                 standardError, settleCalls, executePromise, fileIcon>>
  /\ UNCHANGED <<gitVars, inputVars>>

\* resolveFileIconAsync goes on after the await of line 46.
FileIconResume ==
  /\ pcIcon = "awaitRepoIcon"
  /\ fileIcon' = FileIconAfterRepoIcon(repoIcon, document)
  /\ pcIcon' = "done"
  /\ UNCHANGED <<url, branchName, cwd, execCalls, error, standardOutput,
                 standardError, settleCalls, executePromise, repoIcon>>
  /\ UNCHANGED <<gitVars, inputVars>>

NextIcon ==
  \/ ResolveFileIconCall
  \/ ExecCallback
  \/ RepoIconResume
  \/ FileIconResume

NextGit ==
  \/ \E c \in Callers : GetGitBegin(c)
  \/ \E c \in Callers : GetGitResumeAbsent(c)
  \/ \E c \in Callers : GetGitActivateThrows(c)
  \/ \E c \in Callers : GetGitActivated(c)

----------------------------------------------------------------------------
(* Inputs *)

None == [state |-> "none"]

Folder(path) == [uri |-> [path |-> path]]
Folders(items) == [t |-> "array", items |-> items]
Head_(name, commit) == [t |-> "ref", name |-> name, commit |-> commit]
Remote(fetchUrl) == [fetchUrl |-> fetchUrl]
Repository(path, head, remotes) ==
  [rootUri |-> [path |-> path], state |-> [HEAD |-> head, remotes |-> remotes]]
Api(state, repositories) ==
  [t |-> "api", id |-> 1, state |-> state, repositories |-> repositories]
Document(fileName, languageId) == [fileName |-> fileName, languageId |-> languageId]

RootW == <<"/","w">>
RootV == <<"/","v">>
MAIN == <<"m","a","i","n">>
COMMIT == <<"c","0","d","e">>
PlainUrl == <<"h","t","t","p","s",":","/","/","h",".","c","o","/","o","/","r",".","g","i","t">>
LogoPng == <<"l","o","g","o",".","p","n","g">>
LogoGlob == <<"l","o","g","o",".","*">>
DocJs == Document(<<"/","w","/","x",".","j","s">>, <<"t","s">>)

\* All sequences over S of length at most n.
SeqsUpTo(S, n) == UNION {[1..k -> S] : k \in 0..n}

\* Those without a repeated element.
DistinctSeqsUpTo(S, n) ==
  {q \in SeqsUpTo(S, n) : \A i, j \in 1..Len(q) : i # j => q[i] # q[j]}

\* No getGit call is in progress; git holds g.
GitSettled(g) ==
  /\ git = g
  /\ extension = "active"
  /\ pc = [c \in Callers |-> "idle"]
  /\ gitExtension = [c \in Callers |-> "undefined"]
  /\ ret = [c \in Callers |-> NoValue]
  /\ calls = 0
  /\ callInfo = [c \in Callers |-> [later |-> FALSE, lookedUp |-> FALSE, returned |-> FALSE]]
  /\ failed = FALSE
  /\ gitWrites = 0

\* No resolveFileIconAsync call has been made.
IconIdle ==
  /\ pcIcon = "idle"
  /\ url = <<>>
  /\ branchName = <<>>
  /\ cwd = <<>>
  /\ execCalls = 0
  /\ error = FALSE
  /\ standardOutput = <<>>
  /\ standardError = <<>>
  /\ settleCalls = <<>>
  /\ executePromise = None
  /\ repoIcon = None
  /\ fileIcon = None

\* Bounds: repositories the API reports, files the repository tracks,
\* patterns configured.
MaxRepos == 2
MaxFiles == 3
MaxPatterns == 2

GoodHead == Head_(Str(MAIN), Str(COMMIT))
GoodRepo == Repository(RootW, GoodHead, <<Remote(Str(PlainUrl))>>)
GoodApi == Api("initialized", <<GoodRepo>>)

\* ---- Spec: the early returns of getRepositoryIconAsync
HeadsAndRemotes ==
  { <<Head_(Str(MAIN), Undefined), <<Remote(Str(PlainUrl))>>>>,
    <<Head_(Undefined, Str(COMMIT)), <<Remote(Str(PlainUrl))>>>>,
    <<Undefined, <<Remote(Str(PlainUrl))>>>>,
    <<Head_(Undefined, Undefined), <<Remote(Str(PlainUrl))>>>>,
    <<Head_(Str(MAIN), Undefined), <<>>>>,
    <<Head_(Str(MAIN), Undefined), <<Remote(Undefined)>>>> }

RepoCandidates ==
  {Repository(root, hr[1], hr[2]) : root \in {RootW, RootV}, hr \in HeadsAndRemotes}

GitCandidates ==
  {Undefined, Null}
    \cup {Api(st, rs) : st \in {"uninitialized", "initialized"},
                        rs \in SeqsUpTo(RepoCandidates, MaxRepos)}

FolderCandidates ==
  {Undefined, Folders(<<>>), Folders(<<Folder(RootW)>>),
   Folders(<<Folder(RootV), Folder(RootW)>>)}

Init ==
  /\ \E g \in GitCandidates : GitSettled(g)
  /\ workspaceFolders \in FolderCandidates
  /\ bigImageFilePaths = <<LogoGlob>>
  /\ document = DocJs
  /\ tracked = <<LogoPng>>
  /\ IconIdle

Spec == Init /\ [][NextIcon]_vars

\* ---- SpecIcon: documents, command outcomes and patterns
FileNames == {<<"/","w","/","x",".","j","s">>, <<"/","w","/","m",".","j","s">>, <<"/","w","/","m">>, <<"/","w","/","x">>, <<"/","w","/","x",".","m","d">>}
LanguageIds == {<<"t","s">>, <<"m","d">>, <<"z","z">>}
IconFiles == {LogoPng, <<"s","r","c","/","x",".","j","s">>}
BadGlob == <<"{","l","o","g","o">>
IconGlobs == {LogoGlob, BadGlob}

InitIcon ==
  /\ \E g \in {Undefined, GoodApi} : GitSettled(g)
  /\ workspaceFolders = Folders(<<Folder(RootW)>>)
  /\ bigImageFilePaths \in SeqsUpTo(IconGlobs, MaxPatterns)
  /\ document \in {Document(f, l) : f \in FileNames, l \in LanguageIds}
  /\ tracked \in DistinctSeqsUpTo(IconFiles, MaxFiles)
  /\ IconIdle

SpecIcon == InitIcon /\ [][NextIcon]_vars

\* ---- SpecFiles: tracked files and patterns
FileCandidates == {<<"i">>, <<" ","i">>, <<"d","/","i">>, <<"d","/","j">>, <<"d","/","d","/","i">>, <<"j">>}
GlobCandidates == {<<"*">>, <<"*","*","/","i">>, <<"d","/","*">>, <<" ","i">>, <<"j">>}

InitFiles ==
  /\ GitSettled(GoodApi)
  /\ workspaceFolders = Folders(<<Folder(RootW)>>)
  /\ bigImageFilePaths \in SeqsUpTo(GlobCandidates, MaxPatterns)
  /\ document = DocJs
  /\ tracked \in DistinctSeqsUpTo(FileCandidates, MaxFiles)
  /\ IconIdle

SpecFiles == InitFiles /\ [][NextIcon]_vars

\* ---- SpecUrl: fetch URLs and references
Hosts == {<<"g","i","t","h","u","b",".","c","o","m">>, <<"m","y",".","g","i","t","l","a","b",".","c","o","m">>}
Paths == {<<"o","/","r">>, <<"u","/","u",".","g","i","t","h","u","b",".","i","o">>}
Creds == {<<"t","o","k","e","n">>, <<"u","s","e","r",":","p","a","s","s">>, <<"u","s","e","r","@","m",".","c","o",":","p","a","s","s">>}

SshUrl(host, path) == GIT_AT \o host \o <<":">> \o path \o DOT_GIT
SshSchemeUrl(host, path) == SSH \o GIT_AT \o host \o <<"/">> \o path \o DOT_GIT
HttpsUrl(host, path) == HTTPS \o host \o <<"/">> \o path \o DOT_GIT
HttpsCredUrl(cred, host, path) ==
  HTTPS \o cred \o <<"@">> \o host \o <<"/">> \o path \o DOT_GIT

UrlCandidates ==
  UNION { {SshUrl(h, p), SshSchemeUrl(h, p), HttpsUrl(h, p)}
            \cup {HttpsCredUrl(c, h, p) : c \in Creds} : h \in Hosts, p \in Paths }

HeadCandidates == {Head_(Str(MAIN), Str(COMMIT)), Head_(Undefined, Str(COMMIT))}

InitUrl ==
  /\ \E u \in UrlCandidates, h \in HeadCandidates :
       GitSettled(Api("initialized", <<Repository(RootW, h, <<Remote(Str(u))>>)>>))
  /\ workspaceFolders = Folders(<<Folder(RootW)>>)
  /\ bigImageFilePaths = <<LogoGlob>>
  /\ document = DocJs
  /\ tracked = <<LogoPng>>
  /\ IconIdle

SpecUrl == InitUrl /\ [][NextIcon]_vars

\* ---- SpecGit: getGit calls, alone or overlapping
InitGit ==
  /\ git = Undefined
  /\ extension \in {"absent", "inactive", "active"}
  /\ pc = [c \in Callers |-> "idle"]
  /\ gitExtension = [c \in Callers |-> "undefined"]
  /\ ret = [c \in Callers |-> NoValue]
  /\ calls = 0
  /\ callInfo = [c \in Callers |-> [later |-> FALSE, lookedUp |-> FALSE, returned |-> FALSE]]
  /\ failed = FALSE
  /\ gitWrites = 0
  /\ workspaceFolders = Undefined
  /\ bigImageFilePaths = <<>>
  /\ document = DocJs
  /\ tracked = <<>>
  /\ IconIdle

SpecGit == InitGit /\ [][NextGit]_vars

----------------------------------------------------------------------------
(* Properties of getGit, under SpecGit *)

\* C1: once a getGit call has returned without a handle (extension not
\* found, activate() threw, getAPI threw), every call started later returns
\* null and looks up or activates nothing.
C1_FailureIsPermanent ==
  \A c \in Callers :
    callInfo[c].later =>
      /\ ~callInfo[c].lookedUp
      /\ (callInfo[c].returned => ret[c] = Null)

\* C8: git is written exactly once per process, however getGit calls
\* interleave: no second assignment stores a handle or null.
C8_WrittenOnce == gitWrites <= 1

----------------------------------------------------------------------------
(* Properties of getRepositoryIconAsync's early returns, under Spec *)

RootInWorkspace(i) ==
  \E k \in 1..Len(workspaceFolders.items) :
    workspaceFolders.items[k].uri.path = git.repositories[i].rootUri.path

\* The repository find selects: the first whose root is a workspace folder.
IsSelected(i) ==
  /\ i \in 1..Len(git.repositories)
  /\ RootInWorkspace(i)
  /\ \A j \in 1..(i - 1) : ~RootInWorkspace(j)

HasNoRef(repo) ==
  \/ repo.state.HEAD = Undefined
  \/ (repo.state.HEAD.name = Undefined /\ repo.state.HEAD.commit = Undefined)

HasNoFetchUrl(repo) ==
  \/ repo.state.remotes = <<>>
  \/ repo.state.remotes[1].fetchUrl = Undefined

C2_MustBeAbsent ==
  \/ git = Undefined
  \/ git = Null
  \/ git.state # "initialized"
  \/ git.repositories = <<>>
  \/ workspaceFolders = Undefined
  \/ workspaceFolders.items = <<>>
  \/ \A i \in 1..Len(git.repositories) : ~RootInWorkspace(i)
  \/ \E i \in 1..Len(git.repositories) :
       IsSelected(i) /\ (HasNoRef(git.repositories[i]) \/ HasNoFetchUrl(git.repositories[i]))

\* C2: when the handle is unset, null or not initialized, or there is no
\* repository, no workspace folder, no repository whose root is a workspace
\* folder, or the selected repository has no HEAD name and no HEAD commit,
\* or no first remote with a fetch URL, then getRepositoryIconAsync returns
\* undefined and git ls-files is never started.
C2_AbsentWithoutCommand ==
  C2_MustBeAbsent =>
    /\ execCalls = 0
    /\ executePromise = None
    /\ pcIcon \in {"idle", "awaitRepoIcon", "done"}
    /\ (pcIcon # "idle" => repoIcon = Fulfilled(Undefined))

\* C2's case: an initialized handle whose selected repository has a branch
\* and no remotes; the call has returned.
C2_Witness ==
  /\ pcIcon = "done"
  /\ git.t = "api"
  /\ git.state = "initialized"
  /\ workspaceFolders # Undefined
  /\ \E i \in 1..Len(git.repositories) :
       /\ IsSelected(i)
       /\ ~HasNoRef(git.repositories[i])
       /\ git.repositories[i].state.remotes = <<>>
  /\ repoIcon = Fulfilled(Undefined)
  /\ execCalls = 0

----------------------------------------------------------------------------
(* Properties of the tracked-file scan, under SpecFiles *)

\* Some configured pattern matches f.
Matched(f) ==
  \E p \in 1..Len(bigImageFilePaths) :
    GlobToRegExp(bigImageFilePaths[p]).ok /\ Test(GlobToRegExp(bigImageFilePaths[p]), f)

\* The number of '/'-separated segments of f.
Depth(f) == Cardinality({k \in 1..Len(f) : f[k] = "/"}) + 1

\* What a returned URL holds before the file path.
UrlPrefix == ReplaceFirst(url, HTTPS, HTTPS_RAW) \o <<"/">> \o branchName \o <<"/">>

ReturnedUrl == pcIcon = "done" /\ repoIcon.state = "fulfilled" /\ IsStr(repoIcon.value)

\* The file path a returned URL ends with.
NamedFile == SubSeq(repoIcon.value.s, Len(UrlPrefix) + 1, Len(repoIcon.value.s))

\* C3: the file a returned URL names is no deeper than any tracked file
\* that a pattern matches, and a matched tracked file of the same depth
\* does not come before it in the git ls-files output.
C3_ShallowestFirst ==
  ReturnedUrl =>
    \A j \in 1..Len(tracked) :
      Matched(tracked[j]) =>
        \/ Depth(NamedFile) < Depth(tracked[j])
        \/ /\ Depth(NamedFile) = Depth(tracked[j])
           /\ \E i \in 1..j : tracked[i] = NamedFile

\* C9: a URL is returned only for a tracked file that a pattern matches,
\* and ends with that file's path; when no tracked file is matched the
\* result is undefined.
C9_UrlOnlyForTrackedMatch ==
  (pcIcon = "done" /\ repoIcon.state = "fulfilled") =>
    /\ IsStr(repoIcon.value) =>
         \E i \in 1..Len(tracked) :
           Matched(tracked[i]) /\ repoIcon.value.s = UrlPrefix \o tracked[i]
    /\ (\A i \in 1..Len(tracked) : ~Matched(tracked[i])) => repoIcon.value = Undefined

----------------------------------------------------------------------------
(* Properties of the URL rewriting, under SpecUrl *)

InputUrl == git.repositories[1].state.remotes[1].fetchUrl.s

InputRef ==
  LET head == git.repositories[1].state.HEAD
  IN IF head.name = Undefined THEN head.commit.s ELSE head.name.s

\* C4: for the fetch URL git@<host>:<path>.git the returned URL is
\* https://raw.<host>/<path>/<ref>/<file>, host and path unchanged.
C4_SshUrlCarriedOver ==
  \A host \in Hosts, path \in Paths :
    (ReturnedUrl /\ InputUrl = SshUrl(host, path)) =>
      repoIcon.value.s =
        HTTPS_RAW \o host \o <<"/">> \o path \o <<"/">> \o InputRef \o <<"/">> \o tracked[1]

\* C5: for https://<cred>@<host>/<path>.git the result is the one for
\* https://<host>/<path>.git, and for the latter it is
\* https://raw.<host>/<path>/<ref>/<file>, host and path unchanged.
C5_CredentialsStripped ==
  \A host \in Hosts, path \in Paths :
    /\ \A cred \in Creds :
         (ReturnedUrl /\ InputUrl = HttpsCredUrl(cred, host, path)) =>
           repoIcon = RepoIconAfterExec(NormalizeUrl(HttpsUrl(host, path)), InputRef,
                                        standardOutput, bigImageFilePaths)
    /\ (ReturnedUrl /\ InputUrl = HttpsUrl(host, path)) =>
         repoIcon.value.s =
           HTTPS_RAW \o host \o <<"/">> \o path \o <<"/">> \o InputRef \o <<"/">> \o tracked[1]

----------------------------------------------------------------------------
(* Properties of execute and resolveFileIconAsync, under SpecIcon *)

ExecCalledBack == pcIcon \in {"execSettled", "awaitRepoIcon", "done"} /\ execCalls > 0

\* C10: the exec callback settles the promise of execute by one call:
\* reject() when there is an error, reject(standardError) when there is no
\* error and the error stream is not empty, resolve(standardOutput) only
\* when there is neither; getRepositoryIconAsync rejects with the same
\* reason.
C10_ExecuteSettlesOnce ==
  /\ pcIcon = "awaitExec" => (executePromise = Pending /\ settleCalls = <<>>)
  /\ ExecCalledBack =>
       /\ Len(settleCalls) = 1
       /\ error => executePromise = Rejected(Undefined)
       /\ (~error /\ standardError # <<>>) => executePromise = Rejected(Str(standardError))
       /\ (~error /\ standardError = <<>>) => executePromise = Fulfilled(Str(standardOutput))
       /\ executePromise.state = "fulfilled" => (~error /\ standardError = <<>>)
       /\ (pcIcon # "execSettled" /\ executePromise.state = "rejected") =>
            repoIcon = Rejected(executePromise.reason)

\* C10's case: git exits with success after writing to its error stream.
C10_Witness ==
  /\ pcIcon = "done"
  /\ ~error
  /\ standardError # <<>>
  /\ executePromise = Rejected(Str(standardError))
  /\ repoIcon = Rejected(Str(standardError))

\* C6 as claimed: resolveFileIconAsync always completes by returning a
\* string.
C6_NoFailurePath ==
  pcIcon = "done" => (fileIcon.state = "fulfilled" /\ IsStr(fileIcon.value))

\* A configured pattern whose braces do not pair up: its RegExp cannot be
\* built.
Unbalanced(glob) ==
  \/ \E k \in 1..Len(glob) :
       Cardinality({i \in 1..k : glob[i] = "}"}) > Cardinality({i \in 1..k : glob[i] = "{"})
  \/ Cardinality({i \in 1..Len(glob) : glob[i] = "}"})
       # Cardinality({i \in 1..Len(glob) : glob[i] = "{"})

\* C6 as amended: resolveFileIconAsync returns a string unless
\* getRepositoryIconAsync rejects, which it does when execute rejects and
\* when, execute having resolved, a configured pattern does not compile;
\* then resolveFileIconAsync rejects with the same reason.
C6_FailsOnlyWithRepoIcon ==
  pcIcon = "done" =>
    IF execCalls > 0 /\ executePromise.state = "rejected"
    THEN fileIcon = Rejected(executePromise.reason)
    ELSE IF execCalls > 0 /\ \E p \in 1..Len(bigImageFilePaths) : Unbalanced(bigImageFilePaths[p])
    THEN fileIcon = Rejected(SyntaxError)
    ELSE fileIcon.state = "fulfilled" /\ IsStr(fileIcon.value)

\* C6's case: git ls-files reports an error and the call completes.
C6_Witness ==
  /\ pcIcon = "done"
  /\ execCalls = 1
  /\ error
  /\ fileIcon = Rejected(Undefined)

\* The value of a KNOWN_EXTENSIONS or KNOWN_LANGUAGES entry as an icon key.
EntryIcon(v) == IF IsStr(v) THEN v ELSE v.image

\* C7: the result is the repository icon URL if there is one; otherwise
\* the icon of the first KNOWN_EXTENSIONS key matching the file name,
\* whatever the language; otherwise the icon of the language in
\* KNOWN_LANGUAGES; otherwise 'text'.
C7_PriorityChain ==
  (pcIcon = "done" /\ fileIcon.state = "fulfilled") =>
    LET filename == Basename(document.fileName)
        keys == {i \in 1..Len(KNOWN_EXTENSIONS) : KeyMatches(KNOWN_EXTENSIONS[i].key, filename)}
        langs == {i \in 1..Len(KNOWN_LANGUAGES) : KNOWN_LANGUAGES[i].language = document.languageId}
    IN IF IsStr(repoIcon.value)
       THEN fileIcon.value = repoIcon.value
       ELSE IF keys # {}
       THEN \E i \in keys :
              /\ \A j \in keys : i <= j
              /\ fileIcon.value = EntryIcon(KNOWN_EXTENSIONS[i].value)
       ELSE IF langs # {}
       THEN \E i \in langs :
              /\ \A j \in langs : i <= j
              /\ fileIcon.value = KNOWN_LANGUAGES[i].image
       ELSE fileIcon.value = Str(TEXT)

\* C7's case: no repository icon, a file name ending in '.js' and the
\* language 'ts', which KNOWN_LANGUAGES maps to another icon.
C7_Witness ==
  /\ pcIcon = "done"
  /\ repoIcon = Fulfilled(Undefined)
  /\ document = Document(<<"/","w","/","x",".","j","s">>, <<"t","s">>)
  /\ fileIcon = Fulfilled(Str(<<"j","s">>))

====
